---- MODULE Spec2Model ----
(***************************************************************************)
(* Model of the auto-feedback-generator service: the Validator             *)
(* (src/src/utils/validator.js), the FeedbackGenerator                     *)
(* (src/src/services/feedbackGenerator.js) and the POST /generate-feedback *)
(* handler of the express application (src/unnamed/part_001).              *)
(*                                                                         *)
(* JavaScript values are records [t |-> <type tag>, v |-> <payload>].      *)
(* Numbers are fixed-point: the payload of a number is its value times     *)
(* Unit, so that values between the integers (84.75, 0.5) are held too.    *)
(* Strings are sequences of tokens.  In the text of a request every        *)
(* character the code treats specially (white space, < > { } $ & and the   *)
(* digits) is a token of its own and a run of other characters is one word *)
(* token; a run of literal text of the code that no operation takes apart  *)
(* is one token as well.  Search and equality on tokens then agree with    *)
(* search and equality on characters.                                      *)
(***************************************************************************)
EXTENDS Integers, Sequences, FiniteSets, TLC

VARIABLES
  pc,                   \* where the service is: idle, in a direct call, or
                        \* at a step of the POST /generate-feedback handler
  body,                 \* req.body of the request being handled
  studentValidation,    \* the handler's local of that name
  criteriaValidation,   \* the handler's local of that name
  sanitizedStudentData, \* the handler's local of that name
  sanitizedCriteria,    \* the handler's local of that name
  res,                  \* the response sent: status and JSON body
  calls,                \* the Validator and generator calls of this request
  call,                 \* a direct call of one method: op, args, ret
  feedbackTemplates,    \* this.feedbackTemplates of the one generator
  earlier               \* a direct call made earlier and kept to compare a
                        \* later call with: op, args, ret

vars == <<pc, body, studentValidation, criteriaValidation,
          sanitizedStudentData, sanitizedCriteria, res, calls, call,
          feedbackTemplates, earlier>>

(***************************************************************************)
(* Bounds of the model.                                                    *)
(***************************************************************************)
\* Resolution of the fixed-point numbers: a number n is held as n * Unit.
Unit == 4
\* Longest weakAreas array the inputs hold.
MaxWeak == 3
\* Longest strengths array the inputs hold.
MaxStrengths == 1
\* Latest instant new Date() reads.
MaxNow == 1

(***************************************************************************)
(* JavaScript values.                                                      *)
(***************************************************************************)
Undefined == [t |-> "undefined"]
Null == [t |-> "null"]
NaN == [t |-> "NaN"]
TypeError == [t |-> "TypeError"]
Bool(b) == [t |-> "boolean", v |-> b]
Num(n) == [t |-> "number", v |-> n]
Str(s) == [t |-> "string", v |-> s]
Arr(a) == [t |-> "array", v |-> a]
Obj(o) == [t |-> "object", v |-> o]

\* typeof x
TypeOf(x) ==
  CASE x.t = "undefined" -> "undefined"
    [] x.t = "boolean" -> "boolean"
    [] x.t \in {"number", "NaN"} -> "number"
    [] x.t = "string" -> "string"
    [] OTHER -> "object"

\* Array.isArray(x)
IsArray(x) == x.t = "array"

\* ToBoolean(x): the truthiness tested by !x, x && y, x || y.
Truthy(x) ==
  CASE x.t \in {"undefined", "null", "NaN"} -> FALSE
    [] x.t = "boolean" -> x.v
    [] x.t = "number" -> x.v # 0
    [] x.t = "string" -> x.v # <<>>
    [] OTHER -> TRUE

\* o[k] for a property name k an object may carry: a missing property reads
\* undefined, a primitive has none of the names, and reading a property of
\* undefined or null throws.
Get(o, k) ==
  CASE o.t \in {"undefined", "null"} -> TypeError
    [] o.t = "object" -> IF k \in DOMAIN o.v THEN o.v[k] ELSE Undefined
    [] OTHER -> Undefined

(***************************************************************************)
(* Strings.                                                                *)
(***************************************************************************)
WhiteSpace == {" ", "\t", "\n"}
Digits == <<"0", "1", "2", "3", "4", "5", "6", "7", "8", "9">>

\* s.slice(from, to) on sequences, 1-based and inclusive.
Sub(s, from, to) == IF from > to THEN <<>> ELSE SubSeq(s, from, to)

RECURSIVE TrimStart(_)
TrimStart(s) ==
  IF s # <<>> /\ Head(s) \in WhiteSpace THEN TrimStart(Tail(s)) ELSE s

RECURSIVE TrimEnd(_)
TrimEnd(s) ==
  IF s # <<>> /\ s[Len(s)] \in WhiteSpace
    THEN TrimEnd(Sub(s, 1, Len(s) - 1)) ELSE s

\* String.prototype.trim
Trim(s) == TrimEnd(TrimStart(s))

\* s.replace(/[<>]/g, '')
RECURSIVE StripAngle(_)
StripAngle(s) ==
  IF s = <<>> THEN <<>>
  ELSE IF Head(s) \in {"<", ">"} THEN StripAngle(Tail(s))
  ELSE <<Head(s)>> \o StripAngle(Tail(s))

\* Whether pattern p occurs in s at position i.
MatchAt(s, p, i) ==
  /\ i + Len(p) - 1 <= Len(s)
  /\ \A j \in 1..Len(p) : s[i + j - 1] = p[j]

\* s.indexOf(p), 1-based; 0 when p does not occur.
IndexOf(s, p) ==
  LET hits == {i \in 1..(Len(s) + 1) : MatchAt(s, p, i)}
  IN IF hits = {} THEN 0 ELSE CHOOSE i \in hits : \A j \in hits : i <= j

\* s.includes(p)
Includes(s, p) == IndexOf(s, p) # 0

\* GetSubstitution of String.prototype.replace for a string pattern (no
\* captures): in the replacement text $$ is a dollar, $& the matched text,
\* $` the text before the match, $' the text after it; any other $ is kept.
RECURSIVE GetSubstitution(_, _, _, _)
GetSubstitution(matched, before, after, r) ==
  IF r = <<>> THEN <<>>
  ELSE IF Head(r) = "$" /\ Len(r) >= 2 /\ r[2] \in {"$", "&", "`", "'"}
    THEN (CASE r[2] = "$" -> <<"$">>
            [] r[2] = "&" -> matched
            [] r[2] = "`" -> before
            [] r[2] = "'" -> after)
         \o GetSubstitution(matched, before, after, Sub(r, 3, Len(r)))
  ELSE <<Head(r)>> \o GetSubstitution(matched, before, after, Tail(r))

\* s.replace(p, r) for strings p and r: the first occurrence only.
Replace(s, p, r) ==
  LET i == IndexOf(s, p)
  IN IF i = 0 THEN s
     ELSE LET before == Sub(s, 1, i - 1)
              after == Sub(s, i + Len(p), Len(s))
          IN before \o GetSubstitution(p, before, after, r) \o after

\* The decimal digits of a natural number.
RECURSIVE NatToString(_)
NatToString(n) ==
  IF n < 10 THEN <<Digits[n + 1]>>
  ELSE NatToString(n \div 10) \o <<Digits[(n % 10) + 1]>>

\* The value of a run of decimal digits, -1 when it is not one.
RECURSIVE DigitsValue(_, _)
DigitsValue(s, acc) ==
  IF s = <<>> THEN acc
  ELSE LET d == {i \in 1..10 : Digits[i] = Head(s)}
       IN IF d = {} THEN -1
          ELSE DigitsValue(Tail(s), 10 * acc + (CHOOSE i \in d : TRUE) - 1)

\* StringToNumber: white space is trimmed, the empty string is 0, an
\* optionally signed run of digits is its value, anything else is NaN.
StringToNumber(s) ==
  LET w == Trim(s)
      neg == w # <<>> /\ Head(w) = "-"
      ds == IF w # <<>> /\ Head(w) \in {"-", "+"} THEN Tail(w) ELSE w
  IN IF w = <<>> THEN Num(0)
     ELSE IF ds = <<>> \/ DigitsValue(ds, 0) < 0 THEN NaN
     ELSE Num((IF neg THEN -1 ELSE 1) * DigitsValue(ds, 0) * Unit)

\* ToString(x) of a primitive array element (join turns null and undefined
\* into the empty string).
ElementToString(x) ==
  CASE x.t = "string" -> x.v
    [] x.t = "number" /\ x.v >= 0 /\ x.v % Unit = 0 -> NatToString(x.v \div Unit)
    [] OTHER -> <<>>

\* Array.prototype.join(sep) on the element sequence a.
RECURSIVE Join(_, _)
Join(a, sep) ==
  IF a = <<>> THEN <<>>
  ELSE IF Len(a) = 1 THEN ElementToString(a[1])
  ELSE ElementToString(a[1]) \o sep \o Join(Tail(a), sep)

\* Number(x), the coercion of the validator and of the >= operator.
ToNumber(x) ==
  CASE x.t = "undefined" -> NaN
    [] x.t = "null" -> Num(0)
    [] x.t = "boolean" -> IF x.v THEN Num(Unit) ELSE Num(0)
    [] x.t \in {"number", "NaN"} -> x
    [] x.t = "string" -> StringToNumber(x.v)
    [] x.t = "array" -> StringToNumber(Join(x.v, <<",">>))
    [] OTHER -> NaN

\* isNaN(n) for a number n
IsNaN(n) == n.t = "NaN"

\* x >= k for a number literal k (false when x coerces to NaN).
GreaterEq(x, k) ==
  LET n == ToNumber(x) IN ~IsNaN(n) /\ n.v >= k * Unit

(***************************************************************************)
(* Validator (src/src/utils/validator.js).                                 *)
(***************************************************************************)
required == <<"name", "performance", "subject">>

\* `${field} is required`
RequiredMessage(field) ==
  CASE field = "name" -> "name is required"
    [] field = "performance" -> "performance is required"
    [] field = "subject" -> "subject is required"

\* required.forEach(field => { if (!studentData[field]) errors.push(...) })
RECURSIVE RequiredErrors(_, _)
RequiredErrors(studentData, fields) ==
  IF fields = <<>> THEN <<>>
  ELSE (IF ~Truthy(Get(studentData, Head(fields)))
          THEN <<RequiredMessage(Head(fields))>> ELSE <<>>)
       \o RequiredErrors(studentData, Tail(fields))

\* if (studentData.performance !== undefined) { ... range check ... }
PerformanceErrors(studentData) ==
  LET p == Get(studentData, "performance")
      performance == ToNumber(p)
  IN IF p # Undefined
        /\ (IsNaN(performance) \/ performance.v < 0 \/ performance.v > 100 * Unit)
       THEN <<"Performance must be a number between 0 and 100">> ELSE <<>>

\* if (studentData.name && typeof studentData.name !== 'string')
NameErrors(studentData) ==
  LET name == Get(studentData, "name")
  IN IF Truthy(name) /\ TypeOf(name) # "string"
       THEN <<"Name must be a string">> ELSE <<>>

\* if (studentData.subject && typeof studentData.subject !== 'string')
SubjectErrors(studentData) ==
  LET subject == Get(studentData, "subject")
  IN IF Truthy(subject) /\ TypeOf(subject) # "string"
       THEN <<"Subject must be a string">> ELSE <<>>

\* if (studentData.weakAreas && !Array.isArray(studentData.weakAreas))
WeakAreasErrors(studentData) ==
  LET weakAreas == Get(studentData, "weakAreas")
  IN IF Truthy(weakAreas) /\ ~IsArray(weakAreas)
       THEN <<"Weak areas must be an array">> ELSE <<>>

\* if (studentData.strengths && !Array.isArray(studentData.strengths))
StrengthsErrors(studentData) ==
  LET strengths == Get(studentData, "strengths")
  IN IF Truthy(strengths) /\ ~IsArray(strengths)
       THEN <<"Strengths must be an array">> ELSE <<>>

\* validateStudentData returning as soon as a required field is missing.
validateStudentData_shortCircuit(studentData) ==
  IF studentData.t \in {"undefined", "null"} THEN TypeError
  ELSE LET missing == RequiredErrors(studentData, required)
           errors == IF missing # <<>> THEN missing
                     ELSE PerformanceErrors(studentData)
                          \o NameErrors(studentData)
                          \o SubjectErrors(studentData)
                          \o WeakAreasErrors(studentData)
                          \o StrengthsErrors(studentData)
       IN [isValid |-> Len(errors) = 0, errors |-> errors]

\* Validator.validateStudentData(studentData): the validation result, or
\* the TypeError thrown by the first property read of undefined or null.
validateStudentData(studentData) ==
  IF studentData.t \in {"undefined", "null"} THEN TypeError
  ELSE LET errors == RequiredErrors(studentData, required)
                     \o PerformanceErrors(studentData)
                     \o NameErrors(studentData)
                     \o SubjectErrors(studentData)
                     \o WeakAreasErrors(studentData)
                     \o StrengthsErrors(studentData)
       IN [isValid |-> Len(errors) = 0, errors |-> errors]

\* if (criteria.rubric && typeof criteria.rubric !== 'object')
RubricErrors(criteria) ==
  LET rubric == Get(criteria, "rubric")
  IN IF Truthy(rubric) /\ TypeOf(rubric) # "object"
       THEN <<"Rubric must be an object">> ELSE <<>>

\* WeightErrors with the endpoints shut out: <= and >= for < and >.
WeightErrors_exclusive(criteria) ==
  LET w == Get(criteria, "weight")
      weight == ToNumber(w)
  IN IF w # Undefined /\ (IsNaN(weight) \/ weight.v <= 0 \/ weight.v >= 1 * Unit)
       THEN <<"Weight must be a number between 0 and 1">> ELSE <<>>

\* if (criteria.weight !== undefined) { ... range check ... }
WeightErrors(criteria) ==
  LET w == Get(criteria, "weight")
      weight == ToNumber(w)
  IN IF w # Undefined /\ (IsNaN(weight) \/ weight.v < 0 \/ weight.v > 1 * Unit)
       THEN <<"Weight must be a number between 0 and 1">> ELSE <<>>

\* validateCriteria testing the container with !criteria alone: a value that
\* is truthy and no object goes on to the rubric and weight checks.
validateCriteria_falsyOnly(criteria) ==
  IF ~Truthy(criteria)
    THEN [isValid |-> FALSE, errors |-> <<"Criteria must be an object">>]
  ELSE LET errors == RubricErrors(criteria) \o WeightErrors(criteria)
       IN [isValid |-> Len(errors) = 0, errors |-> errors]

\* Validator.validateCriteria(criteria)
validateCriteria(criteria) ==
  IF ~Truthy(criteria) \/ TypeOf(criteria) # "object"
    THEN [isValid |-> FALSE, errors |-> <<"Criteria must be an object">>]
  ELSE LET errors == RubricErrors(criteria) \o WeightErrors(criteria)
       IN [isValid |-> Len(errors) = 0, errors |-> errors]

\* SanitizeValue with the two steps in the other order: strip, then trim.
SanitizeValue_stripThenTrim(x) ==
  IF TypeOf(x) = "string" THEN Str(Trim(StripAngle(x.v))) ELSE x

\* One field of sanitizeInput: a string is trimmed and then stripped of
\* every < and >, any other value is copied.
SanitizeValue(x) ==
  IF TypeOf(x) = "string" THEN Str(StripAngle(Trim(x.v))) ELSE x

\* Object.keys(data): the own property names of an object, the indices of
\* an array, none for a number or a boolean (a string is never passed).
Keys(data) ==
  CASE data.t \in {"object", "array"} -> DOMAIN data.v
    [] OTHER -> {}

\* o[key] = value: the object o with the property key set.
Put(o, key, value) ==
  Obj([k \in DOMAIN o.v \cup {key} |-> IF k = key THEN value ELSE o.v[k]])

\* The forEach of sanitizeInput over the remaining keys, on the heap h of
\* the call: h[1] is the object data refers to and h[sanitized] the object
\* sanitized refers to.  Each turn reads data[key] and writes
\* sanitized[key].
RECURSIVE SanitizeEach(_, _, _)
SanitizeEach(h, sanitized, keys) ==
  IF keys = {} THEN h
  ELSE LET key == CHOOSE k \in keys : TRUE
       IN SanitizeEach([h EXCEPT ![sanitized] =
                                   Put(@, key, SanitizeValue(h[1].v[key]))],
                       sanitized, keys \ {key})

\* sanitizeInput writing into its argument: const sanitized = data.
sanitizeInputRun_inPlace(data) ==
  IF data.t \in {"undefined", "null"} THEN TypeError
  ELSE [heap |-> SanitizeEach(<<data>>, 1, Keys(data)), sanitized |-> 1]

\* A run of sanitizeInput(data): the heap at the return, object 1 being the
\* argument and object 2 the one const sanitized = {} creates, and the
\* reference returned; or the TypeError Object.keys throws.
sanitizeInputRun(data) ==
  IF data.t \in {"undefined", "null"} THEN TypeError
  ELSE [heap |-> SanitizeEach(<<data, Obj(<<>>)>>, 2, Keys(data)),
        sanitized |-> 2]

\* Validator.sanitizeInput(data): the object returned.
sanitizeInput(data) ==
  LET run == sanitizeInputRun(data)
  IN IF run = TypeError THEN TypeError ELSE run.heap[run.sanitized]

(***************************************************************************)
(* FeedbackGenerator (src/src/services/feedbackGenerator.js).              *)
(***************************************************************************)
\* constructor(): the value given to this.feedbackTemplates
Templates ==
  [excellent |->
     <<"Outstanding work!", " ", "{", "student", "}", " ",
       "has demonstrated exceptional understanding of", " ",
       "{", "topic", "}", ".">>,
   good |->
     <<"Good progress!", " ", "{", "student", "}", " ",
       "shows solid grasp of", " ", "{", "topic", "}", " ",
       "with room for improvement in", " ", "{", "areas", "}", ".">>,
   needsImprovement |->
     <<"{", "student", "}", " ", "needs additional support", " ", "in", " ",
       "{", "topic", "}", ".", " ", "Consider focusing on", " ",
       "{", "recommendations", "}", ".">>]

\* x > k for a number literal k (false when x coerces to NaN).
GreaterThan(x, k) ==
  LET n == ToNumber(x) IN ~IsNaN(n) /\ n.v > k * Unit

\* assessPerformance with the edges given to the lower level: > for >=.
assessPerformance_exclusive(performance) ==
  IF GreaterThan(performance, 85) THEN "excellent"
  ELSE IF GreaterThan(performance, 70) THEN "good"
  ELSE "needsImprovement"

\* assessPerformance(performance)
assessPerformance(performance) ==
  IF GreaterEq(performance, 85) THEN "excellent"
  ELSE IF GreaterEq(performance, 70) THEN "good"
  ELSE "needsImprovement"

\* getBaseTemplate(level)
getBaseTemplate(level) ==
  IF level \in DOMAIN feedbackTemplates /\ feedbackTemplates[level] # <<>>
    THEN feedbackTemplates[level]
    ELSE feedbackTemplates.needsImprovement

\* `{${key}}`
Placeholder(key) == <<"{", key, "}">>

\* The order of Object.keys(data) in personalizeFeedback: the order in which
\* generateFeedback writes the object literal.
DataKeys == <<"student", "topic", "areas", "recommendations">>

\* The forEach of personalizeFeedback over the remaining keys.
RECURSIVE PersonalizeKeys(_, _, _)
PersonalizeKeys(text, data, keys) ==
  IF keys = <<>> THEN text
  ELSE PersonalizeKeys(Replace(text, Placeholder(Head(keys)), data[Head(keys)]),
                       data, Tail(keys))

\* personalizeFeedback(template, data), data holding the text of each key.
personalizeFeedback(template, data) == PersonalizeKeys(template, data, DataKeys)

\* x.join(sep): a TypeError for anything but an array.
JoinOf(x, sep) == IF IsArray(x) THEN Str(Join(x.v, sep)) ELSE TypeError

\* x?.join(sep)
OptJoin(x, sep) ==
  IF x.t \in {"undefined", "null"} THEN Undefined ELSE JoinOf(x, sep)

\* x?.join(sep) || fallback
OptJoinOr(x, sep, fallback) ==
  LET j == OptJoin(x, sep)
  IN IF j = TypeError THEN TypeError
     ELSE IF Truthy(j) THEN j ELSE Str(fallback)

\* x.length === 0 (a number, a boolean and an object have no length)
LengthIsZero(x) == x.t \in {"array", "string"} /\ Len(x.v) = 0

\* x.length > 0
LengthIsPositive(x) == x.t \in {"array", "string"} /\ Len(x.v) > 0

\* x.slice(0, 2).join(' and ')
SliceJoin(x) ==
  IF IsArray(x) THEN Str(Join(Sub(x.v, 1, IF Len(x.v) < 2 THEN Len(x.v) ELSE 2),
                              <<" ", "and", " ">>))
  ELSE TypeError

\* generateRecommendations without the length test of its guard: an empty
\* array goes on to the 'Focus on' sentence.
generateRecommendations_truthyOnly(weakAreas, strengths) ==
  IF ~Truthy(weakAreas)
    THEN Str(<<"Continue building on current strengths">>)
  ELSE LET a == SliceJoin(weakAreas)
           s == OptJoinOr(strengths, <<" ", "and", " ">>, <<"identified areas">>)
       IN IF a = TypeError \/ s = TypeError THEN TypeError
          ELSE Str(<<"Focus on", " ">> \o a.v
                   \o <<" ", "while leveraging strengths in", " ">> \o s.v)

\* generateRecommendations(weakAreas, strengths)
generateRecommendations(weakAreas, strengths) ==
  IF ~Truthy(weakAreas) \/ LengthIsZero(weakAreas)
    THEN Str(<<"Continue building on current strengths">>)
  ELSE LET a == SliceJoin(weakAreas)
           s == OptJoinOr(strengths, <<" ", "and", " ">>, <<"identified areas">>)
       IN IF a = TypeError \/ s = TypeError THEN TypeError
          ELSE Str(<<"Focus on", " ">> \o a.v
                   \o <<" ", "while leveraging strengths in", " ">> \o s.v)

\* `${x}` for the values a learning style may hold.
TemplateToString(x) ==
  CASE x.t = "string" -> x.v
    [] x.t = "boolean" -> IF x.v THEN <<"true">> ELSE <<"false">>
    [] x.t = "array" -> Join(x.v, <<",">>)
    [] x.t = "object" -> <<"[object Object]">>
    [] OTHER -> ElementToString(x)

\* generateDetailedRecommendations returning nothing in place of an empty
\* list.
generateDetailedRecommendations_noneWhenEmpty(studentData) ==
  LET weakAreas == Get(studentData, "weakAreas")
      strengths == Get(studentData, "strengths")
      learningStyle == Get(studentData, "learningStyle")
      w == IF Truthy(weakAreas) /\ LengthIsPositive(weakAreas)
             THEN JoinOf(weakAreas, <<",", " ">>) ELSE Undefined
      s == IF Truthy(strengths) /\ LengthIsPositive(strengths)
             THEN JoinOf(strengths, <<",", " ">>) ELSE Undefined
  IN IF w = TypeError \/ s = TypeError THEN TypeError
     ELSE IF w = Undefined /\ s = Undefined /\ ~Truthy(learningStyle)
       THEN Undefined
     ELSE Arr((IF w # Undefined
                 THEN <<Str(<<"Target improvement areas:", " ">> \o w.v)>>
                 ELSE <<>>)
              \o (IF s # Undefined
                    THEN <<Str(<<"Build upon strengths:", " ">> \o s.v)>>
                    ELSE <<>>)
              \o (IF Truthy(learningStyle)
                    THEN <<Str(<<"Adapt teaching methods for", " ">>
                               \o TemplateToString(learningStyle)
                               \o <<" ", "learning style">>)>>
                    ELSE <<>>))

\* generateDetailedRecommendations naming the first two weak areas only.
generateDetailedRecommendations_firstTwo(studentData) ==
  LET weakAreas == Get(studentData, "weakAreas")
      strengths == Get(studentData, "strengths")
      learningStyle == Get(studentData, "learningStyle")
      w == IF Truthy(weakAreas) /\ LengthIsPositive(weakAreas)
             THEN (IF IsArray(weakAreas)
                     THEN Str(Join(Sub(weakAreas.v, 1,
                                       IF Len(weakAreas.v) < 2
                                         THEN Len(weakAreas.v) ELSE 2),
                                   <<",", " ">>))
                     ELSE TypeError)
             ELSE Undefined
      s == IF Truthy(strengths) /\ LengthIsPositive(strengths)
             THEN JoinOf(strengths, <<",", " ">>) ELSE Undefined
  IN IF w = TypeError \/ s = TypeError THEN TypeError
     ELSE Arr((IF w # Undefined
                 THEN <<Str(<<"Target improvement areas:", " ">> \o w.v)>>
                 ELSE <<>>)
              \o (IF s # Undefined
                    THEN <<Str(<<"Build upon strengths:", " ">> \o s.v)>>
                    ELSE <<>>)
              \o (IF Truthy(learningStyle)
                    THEN <<Str(<<"Adapt teaching methods for", " ">>
                               \o TemplateToString(learningStyle)
                               \o <<" ", "learning style">>)>>
                    ELSE <<>>))

\* generateDetailedRecommendations(studentData)
generateDetailedRecommendations(studentData) ==
  LET weakAreas == Get(studentData, "weakAreas")
      strengths == Get(studentData, "strengths")
      learningStyle == Get(studentData, "learningStyle")
      w == IF Truthy(weakAreas) /\ LengthIsPositive(weakAreas)
             THEN JoinOf(weakAreas, <<",", " ">>) ELSE Undefined
      s == IF Truthy(strengths) /\ LengthIsPositive(strengths)
             THEN JoinOf(strengths, <<",", " ">>) ELSE Undefined
  IN IF w = TypeError \/ s = TypeError THEN TypeError
     ELSE Arr((IF w # Undefined
                 THEN <<Str(<<"Target improvement areas:", " ">> \o w.v)>>
                 ELSE <<>>)
              \o (IF s # Undefined
                    THEN <<Str(<<"Build upon strengths:", " ">> \o s.v)>>
                    ELSE <<>>)
              \o (IF Truthy(learningStyle)
                    THEN <<Str(<<"Adapt teaching methods for", " ">>
                               \o TemplateToString(learningStyle)
                               \o <<" ", "learning style">>)>>
                    ELSE <<>>))

\* generateNextSteps naming every weak area in the 'Focus specifically on'
\* line: join without the slice.
generateNextSteps_allAreas(performanceLevel, weakAreas) ==
  CASE performanceLevel = "excellent" ->
         Arr(<<Str(<<"Explore advanced topics and challenges">>),
               Str(<<"Consider peer tutoring opportunities">>)>>)
    [] performanceLevel = "good" ->
         Arr(<<Str(<<"Practice additional exercises in identified areas">>),
               Str(<<"Seek clarification on challenging concepts">>)>>)
    [] performanceLevel = "needsImprovement" ->
         LET base == <<Str(<<"Schedule additional support sessions">>),
                       Str(<<"Review fundamental concepts">>)>>
         IN IF Truthy(weakAreas) /\ LengthIsPositive(weakAreas)
              THEN (IF ~IsArray(weakAreas) THEN TypeError
                    ELSE Arr(base \o <<Str(<<"Focus specifically on:", " ">>
                                           \o Join(weakAreas.v,
                                                   <<" ", "and", " ">>))>>))
              ELSE Arr(base)
    [] OTHER -> Arr(<<>>)

\* generateNextSteps(performanceLevel, weakAreas)
generateNextSteps(performanceLevel, weakAreas) ==
  CASE performanceLevel = "excellent" ->
         Arr(<<Str(<<"Explore advanced topics and challenges">>),
               Str(<<"Consider peer tutoring opportunities">>)>>)
    [] performanceLevel = "good" ->
         Arr(<<Str(<<"Practice additional exercises in identified areas">>),
               Str(<<"Seek clarification on challenging concepts">>)>>)
    [] performanceLevel = "needsImprovement" ->
         LET base == <<Str(<<"Schedule additional support sessions">>),
                       Str(<<"Review fundamental concepts">>)>>
         IN IF Truthy(weakAreas) /\ LengthIsPositive(weakAreas)
              THEN (IF SliceJoin(weakAreas) = TypeError THEN TypeError
                    ELSE Arr(base \o <<Str(<<"Focus specifically on:", " ">>
                                           \o SliceJoin(weakAreas).v)>>))
              ELSE Arr(base)
    [] OTHER -> Arr(<<>>)

\* The text String.prototype.replace makes of its replacement argument.
ReplacementText(x) ==
  CASE x.t = "undefined" -> <<"undefined">>
    [] x.t = "null" -> <<"null">>
    [] OTHER -> TemplateToString(x)

\* assessPerformance with the cutoffs of a rubric.
AssessWith(performance, rubric) ==
  LET n == ToNumber(performance)
  IN IF ~IsNaN(n) /\ n.v >= Get(rubric, "excellence").v THEN "excellent"
     ELSE IF ~IsNaN(n) /\ n.v >= Get(rubric, "good").v THEN "good"
     ELSE "needsImprovement"

\* generateFeedback classifying by the cutoffs of criteria.rubric when the
\* criteria carries one.
generateFeedback_customRubric(studentData, criteria, instant) ==
  LET name == Get(studentData, "name")
      performance == Get(studentData, "performance")
      subject == Get(studentData, "subject")
      weakAreas == Get(studentData, "weakAreas")
      strengths == Get(studentData, "strengths")
      rubric == Get(criteria, "rubric")
      performanceLevel ==
        IF /\ rubric.t = "object"
           /\ Get(rubric, "excellence").t = "number"
           /\ Get(rubric, "good").t = "number"
          THEN AssessWith(performance, rubric)
          ELSE assessPerformance(performance)
      areas == OptJoinOr(weakAreas, <<",", " ">>, <<"general concepts">>)
      recommendations == generateRecommendations(weakAreas, strengths)
      detailed == generateDetailedRecommendations(studentData)
      nextSteps == generateNextSteps(performanceLevel, weakAreas)
  IN IF TypeError \in {areas, recommendations, detailed, nextSteps}
       THEN TypeError
     ELSE Obj([studentName |-> name,
               subject |-> subject,
               performanceLevel |-> Str(<<performanceLevel>>),
               feedback |->
                 Str(personalizeFeedback(getBaseTemplate(performanceLevel),
                       [student |-> ReplacementText(name),
                        topic |-> ReplacementText(subject),
                        areas |-> areas.v,
                        recommendations |-> recommendations.v])),
               recommendations |-> detailed,
               nextSteps |-> nextSteps,
               timestamp |-> Str(<<"T">> \o NatToString(instant))])

\* generateFeedback(studentData, criteria) at the instant instant: the
\* result object, or the TypeError it throws.
generateFeedback(studentData, criteria, instant) ==
  LET name == Get(studentData, "name")
      performance == Get(studentData, "performance")
      subject == Get(studentData, "subject")
      weakAreas == Get(studentData, "weakAreas")
      strengths == Get(studentData, "strengths")
      performanceLevel == assessPerformance(performance)
      areas == OptJoinOr(weakAreas, <<",", " ">>, <<"general concepts">>)
      recommendations == generateRecommendations(weakAreas, strengths)
      detailed == generateDetailedRecommendations(studentData)
      nextSteps == generateNextSteps(performanceLevel, weakAreas)
  IN IF TypeError \in {areas, recommendations, detailed, nextSteps}
       THEN TypeError
     ELSE Obj([studentName |-> name,
               subject |-> subject,
               performanceLevel |-> Str(<<performanceLevel>>),
               feedback |->
                 Str(personalizeFeedback(getBaseTemplate(performanceLevel),
                       [student |-> ReplacementText(name),
                        topic |-> ReplacementText(subject),
                        areas |-> areas.v,
                        recommendations |-> recommendations.v])),
               recommendations |-> detailed,
               nextSteps |-> nextSteps,
               timestamp |-> Str(<<"T">> \o NatToString(instant))])


(***************************************************************************)
(* Inputs.                                                                 *)
(***************************************************************************)
\* An object literal: the properties of f that are not absent.
MkObj(f) == Obj([k \in {x \in DOMAIN f : f[x] # Undefined} |-> f[k]])

\* A studentData object; Undefined for a field leaves the field out.
Student(name, performance, subject, weakAreas, strengths, learningStyle) ==
  MkObj([name |-> name, performance |-> performance, subject |-> subject,
         weakAreas |-> weakAreas, strengths |-> strengths,
         learningStyle |-> learningStyle])

\* The arrays of at most n labels.
ArraysOf(labels, n) == {Arr(a) : a \in UNION {[1..k -> labels] : k \in 0..n}}

JohnDoe == <<"John", " ", "Doe">>

\* Names that pass validation: plain text, text spelling a placeholder,
\* text spelling a replacement pattern, text with markup and white space.
ValidNames ==
  {Str(JohnDoe), Str(<<"{", "topic", "}">>), Str(<<"$", "&">>),
   Str(<<" ", "<", "b", ">", "Bob", "<", "/b", ">", " ">>), Str(<<" ">>)}

\* One performance of each level.
LevelPerformances == {Num(60 * Unit), Num(70 * Unit), Num(85 * Unit)}

ValidSubjects == {Str(<<"Mathematics">>), Str(<<"{", "areas", "}">>)}

WeakLabels == {Str(<<"Grammar">>), Str(<<>>)}
StrengthLabels == {Str(<<"Algebra">>), Str(<<"<", "b", ">">>)}

\* weakAreas values that pass validation: left out, falsy, or an array.
ValidWeakAreas ==
  {Undefined, Str(<<>>), Num(0)} \cup ArraysOf(WeakLabels, MaxWeak)

ValidStrengths ==
  {Undefined, Str(<<>>)} \cup ArraysOf(StrengthLabels, MaxStrengths)

LearningStyles == {Undefined, Str(<<"visual">>), Str(<<>>)}

\* The records the engine is exercised with.
EngineStudents ==
  {Student(n, p, s, w, st, ls) :
     n \in ValidNames, p \in LevelPerformances, s \in ValidSubjects,
     w \in ValidWeakAreas, st \in ValidStrengths, ls \in LearningStyles}

\* Values of every type for the fields the validator reads.
AnyNames == {Undefined, Null, Str(<<>>), Str(JohnDoe), Num(5 * Unit)}

AnyPerformances ==
  {Undefined, Null, Bool(TRUE), Bool(FALSE), Obj(<<>>),
   Num(-5 * Unit), Num(0), Num(1), Num(60 * Unit), Num(100 * Unit),
   Num(100 * Unit + 1), Num(150 * Unit),
   Str(<<"9", "0">>), Str(<<"a", "b", "c">>), Str(<<>>),
   Arr(<<Num(50 * Unit)>>)}

AnySubjects == {Undefined, Str(<<>>), Str(<<"Mathematics">>), Num(7 * Unit)}

AnyWeakAreas ==
  {Undefined, Null, Str(<<>>), Num(0), Bool(FALSE), Str(<<"Grammar">>),
   Obj(<<>>), Arr(<<>>), Arr(<<Str(<<"Grammar">>)>>)}

AnyStrengths ==
  {Undefined, Str(<<>>), Str(<<"Algebra">>), Arr(<<>>),
   Arr(<<Str(<<"Algebra">>)>>)}

AnyLearningStyles == {Undefined, Num(5 * Unit)}

\* The records the validator is exercised with.
ValidatorStudents ==
  {Student(n, p, s, w, st, ls) :
     n \in AnyNames, p \in AnyPerformances, s \in AnySubjects,
     w \in AnyWeakAreas, st \in AnyStrengths, ls \in AnyLearningStyles}

\* criteria values: left out, not objects, and objects with and without a
\* rubric and a weight.
AnyCriteria ==
  {Undefined, Null, Str(<<"strict">>), Num(1 * Unit), Arr(<<>>), Obj(<<>>),
   Obj([rubric |-> Obj([excellence |-> Num(85 * Unit), good |-> Num(70 * Unit),
                         improvement |-> Num(50 * Unit)])]),
   Obj([rubric |-> Str(<<"strict">>)]),
   Obj([weight |-> Num(1)]), Obj([weight |-> Num(1 * Unit)]),
   Obj([weight |-> Num(2 * Unit)]), Obj([weight |-> Str(<<"a", "b", "c">>)])}

\* weight values of every type, the endpoints 0 and 1 and their neighbours.
Weights ==
  {Undefined, Null, Bool(TRUE), Num(-1), Num(0), Num(1), Num(1 * Unit - 1),
   Num(1 * Unit), Num(1 * Unit + 1), Num(2 * Unit), Str(<<"1">>),
   Str(<<"a", "b", "c">>), Str(<<>>)}

\* rubric values: left out, a mapping, text, empty text.
Rubrics ==
  {Undefined,
   Obj([excellence |-> Num(85 * Unit), good |-> Num(70 * Unit),
        improvement |-> Num(50 * Unit)]),
   Str(<<"strict">>), Str(<<>>)}

\* The criteria validateCriteria is called with.
CriteriaValues ==
  AnyCriteria \cup {MkObj([rubric |-> r, weight |-> w]) : r \in Rubrics, w \in Weights}

\* Text with white space and angle brackets at its ends and inside.
SanitizeTexts ==
  {Str(JohnDoe), Str(<<>>), Str(<<" ">>),
   Str(<<" ", "<", "b", ">", "Bob", "<", "/b", ">", " ">>),
   Str(<<"<", " ", "Bob", " ", ">">>),
   Str(<<"\t", "a", " ", "<", " ", "b", "\n">>)}

\* The objects sanitizeInput is called with: records with text, numbers,
\* arrays and null in their fields, criteria objects, and no object.
SanitizeInputs ==
  {Student(n, p, s, w, Undefined, ls) :
     n \in SanitizeTexts,
     p \in {Num(85 * Unit), Str(<<" ", "9", "0", " ">>)},
     s \in {Str(<<"Mathematics">>), Str(<<" ", "<", "Math", ">", " ">>)},
     w \in {Undefined, Null, Arr(<<Str(<<"<", "b", ">">>)>>)},
     ls \in {Undefined, Str(<<" ", "visual", " ">>)}}
  \cup {c \in AnyCriteria : c.t = "object"}
  \cup {Undefined, Null}

\* The weakAreas generateRecommendations is called with: absent, empty
\* text, and arrays of up to MaxWeak of three labels.
RecommendedWeakAreas ==
  {Undefined, Null, Str(<<>>)}
  \cup ArraysOf({Str(<<"Grammar">>), Str(<<"Vocabulary">>), Str(<<"Writing">>)},
               MaxWeak)

\* The strengths generateRecommendations is called with: absent, text, and
\* arrays of up to MaxStrengths + 1 labels, the empty label among them.
RecommendedStrengths ==
  {Undefined, Null, Str(<<"Algebra">>)}
  \cup ArraysOf({Str(<<"Algebra">>), Str(<<"Geometry">>), Str(<<>>)},
               MaxStrengths + 1)

\* The request of the API documentation.
DocumentedStudent ==
  Student(Str(JohnDoe), Num(85 * Unit), Str(<<"Mathematics">>),
          Arr(<<Str(<<"Geometry">>), Str(<<"Word", " ", "problems">>)>>),
          Arr(<<Str(<<"Algebra">>), Str(<<"Problem", " ", "solving">>)>>),
          Str(<<"visual">>))

DocumentedCriteria ==
  Obj([rubric |-> Obj([excellence |-> Num(85 * Unit), good |-> Num(70 * Unit),
                       improvement |-> Num(50 * Unit)]),
       weight |-> Num(1 * Unit)])

\* The records of the repository's examples: the three of the unit tests,
\* the one of the API documentation, and one with the optional fields left
\* out.
ExampleStudents ==
  {Student(Str(JohnDoe), Num(90 * Unit), Str(<<"Mathematics">>), Arr(<<>>),
           Arr(<<Str(<<"Problem", " ", "solving">>),
                 Str(<<"Analytical", " ", "thinking">>)>>), Undefined),
   Student(Str(<<"Jane", " ", "Smith">>), Num(75 * Unit), Str(<<"Science">>),
           Arr(<<Str(<<"Lab", " ", "procedures">>)>>),
           Arr(<<Str(<<"Theory", " ", "understanding">>)>>), Undefined),
   Student(Str(<<"Bob", " ", "Johnson">>), Num(60 * Unit), Str(<<"English">>),
           Arr(<<Str(<<"Grammar">>), Str(<<"Vocabulary">>)>>),
           Arr(<<Str(<<"Creative", " ", "writing">>)>>), Undefined),
   DocumentedStudent,
   Student(Str(JohnDoe), Num(85 * Unit), Str(<<"Mathematics">>),
           Undefined, Undefined, Undefined)}

\* The criteria of the examples: none, the rubric of the tests, the rubric
\* and weight of the API documentation, and a rubric with other cutoffs.
ExampleCriteria ==
  {Obj(<<>>),
   Obj([rubric |-> Obj([excellence |-> Num(85 * Unit), good |-> Num(70 * Unit),
                        improvement |-> Num(50 * Unit)])]),
   DocumentedCriteria,
   Obj([rubric |-> Obj([excellence |-> Num(95 * Unit), good |-> Num(80 * Unit),
                        improvement |-> Num(50 * Unit)])])}

\* Records with three weak areas, one of each level.
ThreeAreaStudents ==
  {Student(Str(<<"Bob", " ", "Johnson">>), p, Str(<<"English">>),
           Arr(<<Str(<<"Grammar">>), Str(<<"Vocabulary">>),
                 Str(<<"Spelling">>)>>),
           Undefined, Undefined) : p \in LevelPerformances}

\* The request bodies of the examples.
ExampleBodies ==
  {MkObj([studentData |-> sd, criteria |-> c]) :
     sd \in ExampleStudents, c \in ExampleCriteria}

\* studentData values that are no object at all.
NoRecords == {Undefined, Null, Str(JohnDoe), Num(5 * Unit)}

\* The studentData values of the requests: the engine's records, the
\* validator's records without strengths and learning style, and values that
\* are no record.
RequestStudents ==
  EngineStudents
  \cup {sd \in ValidatorStudents :
          Get(sd, "strengths") = Undefined /\ Get(sd, "learningStyle") = Undefined}
  \cup ThreeAreaStudents
  \cup NoRecords

\* The request bodies: every studentData without criteria, and every
\* criteria with a valid and with an invalid studentData.
Bodies ==
  {MkObj([studentData |-> sd, criteria |-> Undefined]) : sd \in RequestStudents}
  \cup {MkObj([studentData |-> sd, criteria |-> c]) :
          sd \in {Student(Str(JohnDoe), Num(85 * Unit), Str(<<"Mathematics">>),
                          Undefined, Undefined, Undefined),
                  Student(Undefined, Num(150 * Unit), Str(<<"Mathematics">>),
                          Undefined, Undefined, Undefined)},
          c \in AnyCriteria}

(***************************************************************************)
(* The service.                                                            *)
(***************************************************************************)
Init ==
  /\ pc = "idle"
  /\ body = Undefined
  /\ studentValidation = Undefined
  /\ criteriaValidation = Undefined
  /\ sanitizedStudentData = Undefined
  /\ sanitizedCriteria = Undefined
  /\ res = Undefined
  /\ calls = <<>>
  /\ call = Undefined
  /\ feedbackTemplates = Templates
  /\ earlier = Undefined

\* const { studentData, criteria = {} } = req.body
StudentDataOf(b) == Get(b, "studentData")
CriteriaOf(b) ==
  IF Get(b, "criteria") = Undefined THEN Obj(<<>>) ELSE Get(b, "criteria")

\* res.status(400).json({ error: 'Validation failed', details: errors })
BadRequest(errors) ==
  [status |-> 400, body |-> [error |-> "Validation failed", details |-> errors]]

\* The catch block: res.status(500).json({ error: 'Internal server error', ... })
InternalError ==
  [status |-> 500,
   body |-> [error |-> "Internal server error",
             message |-> "An unexpected error occurred while generating feedback"]]

\* res.json(feedback)
Ok(result) == [status |-> 200, body |-> result]

\* A POST /generate-feedback request arrives with body b.
Receive(b) ==
  /\ pc = "idle"
  /\ pc' = "validateStudent"
  /\ body' = b
  /\ UNCHANGED <<studentValidation, criteriaValidation, sanitizedStudentData,
                 sanitizedCriteria, res, calls, call, feedbackTemplates, earlier>>

\* ValidateStudent validating the criteria as well before it answers: the
\* details of the 400 response hold the errors of both.
ValidateStudent_bothAtOnce ==
  /\ pc = "validateStudent"
  /\ calls' = Append(calls, "validateStudentData")
  /\ LET v == validateStudentData(StudentDataOf(body))
         c == validateCriteria(CriteriaOf(body))
     IN IF v = TypeError
          THEN /\ res' = InternalError
               /\ pc' = "responded"
               /\ UNCHANGED studentValidation
          ELSE /\ studentValidation' = v
               /\ IF v.isValid
                    THEN pc' = "validateCriteria" /\ UNCHANGED res
                    ELSE /\ pc' = "responded"
                         /\ res' = BadRequest(v.errors \o c.errors)
  /\ UNCHANGED <<body, criteriaValidation, sanitizedStudentData,
                 sanitizedCriteria, call, feedbackTemplates, earlier>>

\* const studentValidation = Validator.validateStudentData(studentData) and
\* the test of its isValid.
ValidateStudent ==
  /\ pc = "validateStudent"
  /\ calls' = Append(calls, "validateStudentData")
  /\ LET v == validateStudentData(StudentDataOf(body))
     IN IF v = TypeError
          THEN /\ res' = InternalError
               /\ pc' = "responded"
               /\ UNCHANGED studentValidation
          ELSE /\ studentValidation' = v
               /\ IF v.isValid
                    THEN pc' = "validateCriteria" /\ UNCHANGED res
                    ELSE pc' = "responded" /\ res' = BadRequest(v.errors)
  /\ UNCHANGED <<body, criteriaValidation, sanitizedStudentData,
                 sanitizedCriteria, call, feedbackTemplates, earlier>>

\* ValidateCriteria without the return of its 400 branch: the handler goes
\* on to sanitize whatever the verdict.
ValidateCriteria_noReturn ==
  /\ pc = "validateCriteria"
  /\ calls' = Append(calls, "validateCriteria")
  /\ criteriaValidation' = validateCriteria(CriteriaOf(body))
  /\ pc' = "sanitize"
  /\ UNCHANGED <<body, studentValidation, sanitizedStudentData,
                 sanitizedCriteria, res, call, feedbackTemplates, earlier>>

\* const criteriaValidation = Validator.validateCriteria(criteria) and the
\* test of its isValid.
ValidateCriteria ==
  /\ pc = "validateCriteria"
  /\ calls' = Append(calls, "validateCriteria")
  /\ LET v == validateCriteria(CriteriaOf(body))
     IN /\ criteriaValidation' = v
        /\ IF v.isValid
             THEN pc' = "sanitize" /\ UNCHANGED res
             ELSE pc' = "responded" /\ res' = BadRequest(v.errors)
  /\ UNCHANGED <<body, studentValidation, sanitizedStudentData,
                 sanitizedCriteria, call, feedbackTemplates, earlier>>

\* The two sanitizeInput calls.
Sanitize ==
  /\ pc = "sanitize"
  /\ calls' = calls \o <<"sanitizeInput", "sanitizeInput">>
  /\ sanitizedStudentData' = sanitizeInput(StudentDataOf(body))
  /\ sanitizedCriteria' = sanitizeInput(CriteriaOf(body))
  /\ pc' = "generate"
  /\ UNCHANGED <<body, studentValidation, criteriaValidation, res, call,
                 feedbackTemplates, earlier>>

\* const feedback = feedbackGenerator.generateFeedback(...); res.json(feedback)
\* with the catch block for what generateFeedback throws.
Generate(instant) ==
  /\ pc = "generate"
  /\ calls' = Append(calls, "generateFeedback")
  /\ LET result == generateFeedback(sanitizedStudentData, sanitizedCriteria, instant)
     IN res' = IF result = TypeError THEN InternalError ELSE Ok(result)
  /\ pc' = "responded"
  /\ UNCHANGED <<body, studentValidation, criteriaValidation,
                 sanitizedStudentData, sanitizedCriteria, call, feedbackTemplates, earlier>>

\* The request is over: its locals are gone.
Finish ==
  /\ pc = "responded"
  /\ pc' = "idle"
  /\ body' = Undefined
  /\ studentValidation' = Undefined
  /\ criteriaValidation' = Undefined
  /\ sanitizedStudentData' = Undefined
  /\ sanitizedCriteria' = Undefined
  /\ res' = Undefined
  /\ calls' = <<>>
  /\ UNCHANGED <<call, feedbackTemplates, earlier>>

\* A direct call of one method, as the unit tests make them.
Invoke(op, args, ret) ==
  /\ pc = "idle"
  /\ pc' = "called"
  /\ call' = [op |-> op, args |-> args, ret |-> ret]
  /\ UNCHANGED <<body, studentValidation, criteriaValidation,
                 sanitizedStudentData, sanitizedCriteria, res, calls,
                 feedbackTemplates, earlier>>

CallValidateStudentData(studentData) ==
  Invoke("validateStudentData", <<studentData>>, validateStudentData(studentData))

CallValidateCriteria(criteria) ==
  Invoke("validateCriteria", <<criteria>>, validateCriteria(criteria))

CallSanitizeInput(data) ==
  Invoke("sanitizeInput", <<data>>, sanitizeInputRun(data))

CallGenerateRecommendations(weakAreas, strengths) ==
  Invoke("generateRecommendations", <<weakAreas, strengths>>,
         generateRecommendations(weakAreas, strengths))

\* generateFeedback keeping the text it rendered as the template of the
\* level: this.feedbackTemplates[performanceLevel] = feedback.
CallGenerateFeedback_caching(studentData, criteria, instant) ==
  LET result == generateFeedback(studentData, criteria, instant)
  IN /\ pc = "idle"
     /\ pc' = "called"
     /\ call' = [op |-> "generateFeedback", args |-> <<studentData, criteria>>,
                 ret |-> result]
     /\ feedbackTemplates' =
          IF result = TypeError THEN feedbackTemplates
          ELSE [feedbackTemplates EXCEPT
                  ![result.v.performanceLevel.v[1]] = result.v.feedback.v]
     /\ UNCHANGED <<body, studentValidation, criteriaValidation,
                    sanitizedStudentData, sanitizedCriteria, res, calls,
                    earlier>>

CallGenerateFeedback(studentData, criteria, instant) ==
  Invoke("generateFeedback", <<studentData, criteria>>,
         generateFeedback(studentData, criteria, instant))

CallAssessPerformance(performance) ==
  Invoke("assessPerformance", <<performance>>,
         Str(<<assessPerformance(performance)>>))

\* The direct call returns.
Return ==
  /\ pc = "called"
  /\ pc' = "idle"
  /\ call' = Undefined
  /\ UNCHANGED <<body, studentValidation, criteriaValidation,
                 sanitizedStudentData, sanitizedCriteria, res, calls,
                 feedbackTemplates, earlier>>

\* The performance values assessPerformance is called with: the validator's
\* and the edges of the levels.
AssessedPerformances ==
  AnyPerformances
  \cup {Num(n) : n \in {69 * Unit, 70 * Unit - 1, 70 * Unit, 70 * Unit + 1,
                        84 * Unit, 85 * Unit - 1, 85 * Unit, 85 * Unit + 1}}

\* The direct call in progress is kept for later comparison.
Remember ==
  /\ pc = "called"
  /\ earlier # call
  /\ earlier' = call
  /\ UNCHANGED <<pc, body, studentValidation, criteriaValidation,
                 sanitizedStudentData, sanitizedCriteria, res, calls, call,
                 feedbackTemplates>>

\* What an idle service may start: a request, or a direct call.
Start ==
  \/ \E b \in Bodies \cup ExampleBodies : Receive(b)
  \/ \E sd \in ValidatorStudents \cup NoRecords : CallValidateStudentData(sd)
  \/ \E c \in CriteriaValues : CallValidateCriteria(c)
  \/ \E data \in SanitizeInputs : CallSanitizeInput(data)
  \/ \E w \in RecommendedWeakAreas, st \in RecommendedStrengths :
       CallGenerateRecommendations(w, st)
  \/ \E p \in AssessedPerformances : CallAssessPerformance(p)

Next ==
  \/ pc = "idle" /\ Start
  \/ ValidateStudent
  \/ ValidateCriteria
  \/ Sanitize
  \/ pc = "generate" /\ \E instant \in 0..MaxNow : Generate(instant)
  \/ Finish
  \/ Return

Spec == Init /\ [][Next]_vars

\* The calls on the one generator and the static Validator that the
\* examples make, in any order and number, with one earlier call kept.
CallsStart ==
  \/ \E b \in ExampleBodies : Receive(b)
  \/ \E sd \in ExampleStudents, c \in ExampleCriteria, instant \in 0..MaxNow :
       CallGenerateFeedback(sd, c, instant)
  \/ \E sd \in ExampleStudents : CallValidateStudentData(sd)
  \/ \E c \in ExampleCriteria : CallValidateCriteria(c)
  \/ \E data \in ExampleStudents : CallSanitizeInput(data)

CallsNext ==
  \/ pc = "idle" /\ CallsStart
  \/ ValidateStudent
  \/ ValidateCriteria
  \/ Sanitize
  \/ pc = "generate" /\ \E instant \in 0..MaxNow : Generate(instant)
  \/ Finish
  \/ Remember
  \/ Return

CallsSpec == Init /\ [][CallsNext]_vars

(***************************************************************************)
(* Properties.                                                             *)
(***************************************************************************)
\* A direct call of op is in progress.
Called(op) == pc = "called" /\ call.op = op

\* x is a number of the interval [lo, hi] (given in whole units).
NumberIn(x, lo, hi) == x.t = "number" /\ lo * Unit <= x.v /\ x.v <= hi * Unit

Answered(status) == pc = "responded" /\ res.status = status

\* The texts generateFeedback binds to the placeholders for the sanitized
\* record sd.
Bindings(sd) ==
  [student |-> ReplacementText(Get(sd, "name")),
   topic |-> ReplacementText(Get(sd, "subject")),
   areas |-> OptJoinOr(Get(sd, "weakAreas"), <<",", " ">>,
                       <<"general concepts">>).v,
   recommendations |-> generateRecommendations(Get(sd, "weakAreas"),
                                               Get(sd, "strengths")).v]

PlaceholderKeys == {"student", "topic", "areas", "recommendations"}

\* C2: the feedback of an answered request holds no placeholder token left
\* over from the template.  Stated for the tokens that no bound text
\* spells: such a token in the feedback can only be the template's.
C2_NoPlaceholderLeft ==
  Answered(200) =>
    \A key \in PlaceholderKeys :
      Includes(res.body.v.feedback.v, Placeholder(key)) =>
        \E k \in PlaceholderKeys :
          Includes(Bindings(sanitizedStudentData)[k], Placeholder(key))

\* The template with every placeholder replaced by its bound text as it
\* stands, and every other token kept.
RECURSIVE Render(_, _)
Render(template, data) ==
  IF template = <<>> THEN <<>>
  ELSE IF /\ Len(template) >= 3
          /\ template[1] = "{" /\ template[3] = "}"
          /\ template[2] \in DOMAIN data
    THEN data[template[2]] \o Render(Sub(template, 4, Len(template)), data)
  ELSE <<Head(template)>> \o Render(Tail(template), data)

\* C4: the feedback is the template of the record's level with each
\* placeholder replaced verbatim by its bound text, all else unchanged.
C4_FeedbackIsRenderedTemplate ==
  Answered(200) =>
    res.body.v.feedback.v =
      Render(Templates[assessPerformance(Get(sanitizedStudentData, "performance"))],
             Bindings(sanitizedStudentData))

\* C3: a request whose record and criteria both passed validation is
\* answered with a feedback result; generateFeedback raises no error.
C3_TotalOnValidatedInput ==
  (/\ pc = "responded"
   /\ studentValidation # Undefined /\ studentValidation.isValid
   /\ criteriaValidation # Undefined /\ criteriaValidation.isValid)
  => res.status = 200

\* The elements of a sequence.
Range(q) == {q[i] : i \in DOMAIN q}

\* A validation result that says invalid.
Failed(validation) == validation # Undefined /\ ~validation.isValid

\* C5: in the handler the engine is never invoked for a request that fails
\* validation: sanitizeInput and generateFeedback are called only after
\* validateStudentData and validateCriteria, in that order, both returned
\* isValid = true for the request, and a failed validation ends the
\* request with status 400 before any sanitize or generate step.
C5_EngineOnlyAfterValidation ==
  /\ (Range(calls) \cap {"sanitizeInput", "generateFeedback"} # {}) =>
       /\ Len(calls) >= 2
       /\ calls[1] = "validateStudentData" /\ calls[2] = "validateCriteria"
       /\ studentValidation = validateStudentData(StudentDataOf(body))
       /\ studentValidation.isValid
       /\ criteriaValidation = validateCriteria(CriteriaOf(body))
       /\ criteriaValidation.isValid
  /\ (Failed(studentValidation) \/ Failed(criteriaValidation)) =>
       /\ Answered(400)
       /\ Range(calls) \cap {"sanitizeInput", "generateFeedback"} = {}

\* C5 witness: a request with a valid record and invalid criteria has been
\* answered 400.
C5_Witness ==
  /\ Answered(400)
  /\ studentValidation # Undefined /\ studentValidation.isValid
  /\ Failed(criteriaValidation)

\* The request body carries a valid student record and valid criteria.
ValidInput(b) ==
  /\ StudentDataOf(b).t = "object"
  /\ validateStudentData(StudentDataOf(b)).isValid
  /\ validateCriteria(CriteriaOf(b)).isValid

\* C6: every request whose input is not a valid student record or valid
\* criteria is answered 400 with a non-empty error list in details, never
\* 500.
C6_InvalidInputIs400 ==
  (pc = "responded" /\ ~ValidInput(body)) =>
    /\ res.status = 400
    /\ res.body.details # <<>>

\* A field that is there: neither left out nor null.
Present(x) == x \notin {Undefined, Null}

\* x is non-empty text.
NonEmptyText(x) == x.t = "string" /\ x.v # <<>>

\* A record of the documented domain: name and subject non-empty text,
\* performance a number of [0,100], weakAreas and strengths left out or
\* arrays.
Documented(sd) ==
  /\ sd.t = "object"
  /\ NonEmptyText(Get(sd, "name"))
  /\ NonEmptyText(Get(sd, "subject"))
  /\ NumberIn(Get(sd, "performance"), 0, 100)
  /\ Get(sd, "weakAreas") = Undefined \/ IsArray(Get(sd, "weakAreas"))
  /\ Get(sd, "strengths") = Undefined \/ IsArray(Get(sd, "strengths"))

\* C7: validateStudentData accepts every record of the documented domain,
\* the performances 0 and 100 included.
C7_DocumentedDomainAccepted ==
  (Called("validateStudentData") /\ Documented(call.args[1])) =>
    call.ret = [isValid |-> TRUE, errors |-> <<>>]

\* validateStudentData was called with a record and returned.
Validated == Called("validateStudentData") /\ call.ret # TypeError

\* C8: a record validateStudentData finds valid has weakAreas absent or an
\* array and strengths absent or an array, and a present non-array value of
\* either produces its 'must be an array' error.
C8_ValidHasArrays ==
  Validated =>
    LET weakAreas == Get(call.args[1], "weakAreas")
        strengths == Get(call.args[1], "strengths")
    IN /\ call.ret.isValid =>
            /\ ~Present(weakAreas) \/ IsArray(weakAreas)
            /\ ~Present(strengths) \/ IsArray(strengths)
       /\ (Present(weakAreas) /\ ~IsArray(weakAreas)) =>
            "Weak areas must be an array" \in Range(call.ret.errors)
       /\ (Present(strengths) /\ ~IsArray(strengths)) =>
            "Strengths must be an array" \in Range(call.ret.errors)

\* The messages of the rules the record sd violates: a required field that
\* is missing, a present performance that is no number of [0,100], a
\* present name or subject that is no text, a present weakAreas or
\* strengths that is no array.
ViolatedRules(sd) ==
  {RequiredMessage(f) : f \in {g \in Range(required) : ~Present(Get(sd, g))}}
  \cup (IF Present(Get(sd, "performance"))
           /\ LET n == ToNumber(Get(sd, "performance"))
              IN IsNaN(n) \/ n.v < 0 \/ n.v > 100 * Unit
          THEN {"Performance must be a number between 0 and 100"} ELSE {})
  \cup (IF Present(Get(sd, "name")) /\ TypeOf(Get(sd, "name")) # "string"
          THEN {"Name must be a string"} ELSE {})
  \cup (IF Present(Get(sd, "subject")) /\ TypeOf(Get(sd, "subject")) # "string"
          THEN {"Subject must be a string"} ELSE {})
  \cup (IF Present(Get(sd, "weakAreas")) /\ ~IsArray(Get(sd, "weakAreas"))
          THEN {"Weak areas must be an array"} ELSE {})
  \cup (IF Present(Get(sd, "strengths")) /\ ~IsArray(Get(sd, "strengths"))
          THEN {"Strengths must be an array"} ELSE {})

\* C9: the error list holds one message for each rule the record violates
\* and no other message, and isValid is true iff the list is empty.
C9_EveryViolationOnce ==
  Validated =>
    /\ Range(call.ret.errors) = ViolatedRules(call.args[1])
    /\ Len(call.ret.errors) = Cardinality(ViolatedRules(call.args[1]))
    /\ call.ret.isValid <=> (call.ret.errors = <<>>)

\* validateStudentData was called with a record that has neither name nor
\* performance nor subject.
ValidatedWithoutRequired ==
  /\ Validated
  /\ \A f \in Range(required) : Get(call.args[1], f) = Undefined

\* C10 as stated: a record missing name, performance and subject yields
\* exactly the three 'is required' errors, whatever its other fields hold.
C10_ExactlyThreeErrors ==
  ValidatedWithoutRequired =>
    call.ret.errors = <<"name is required", "performance is required",
                        "subject is required">>

\* C10 amended: such a record yields the three 'is required' errors, then
\* 'Weak areas must be an array' iff weakAreas is a truthy non-array, then
\* 'Strengths must be an array' iff strengths is a truthy non-array, and
\* nothing else, whatever learningStyle holds.
C10_ThreeErrorsAndArrayErrors ==
  ValidatedWithoutRequired =>
    LET weakAreas == Get(call.args[1], "weakAreas")
        strengths == Get(call.args[1], "strengths")
    IN call.ret.errors =
         <<"name is required", "performance is required", "subject is required">>
         \o (IF Truthy(weakAreas) /\ ~IsArray(weakAreas)
               THEN <<"Weak areas must be an array">> ELSE <<>>)
         \o (IF Truthy(strengths) /\ ~IsArray(strengths)
               THEN <<"Strengths must be an array">> ELSE <<>>)

\* C10 witness: a record without the required fields, with a weakAreas
\* that is text and a learning style that is a number, got four errors.
C10_Witness ==
  /\ ValidatedWithoutRequired
  /\ Get(call.args[1], "weakAreas") = Str(<<"Grammar">>)
  /\ Get(call.args[1], "learningStyle") = Num(5 * Unit)
  /\ Len(call.ret.errors) = 4

\* x is a number, or text that reads as a number, with a value in [lo, hi].
NumericIn(x, lo, hi) ==
  \/ NumberIn(x, lo, hi)
  \/ /\ x.t = "string" /\ Trim(x.v) # <<>>
     /\ NumberIn(StringToNumber(x.v), lo, hi)

\* C11: a present performance that is neither a number nor numeric-looking
\* text with a value in [0,100] (a number out of range, a boolean, other
\* text, an array, an object) gets 'Performance must be a number between 0
\* and 100', and the record is not valid.
C11_BadPerformanceRejected ==
  (/\ Validated
   /\ Present(Get(call.args[1], "performance"))
   /\ ~NumericIn(Get(call.args[1], "performance"), 0, 100))
  => /\ "Performance must be a number between 0 and 100"
          \in Range(call.ret.errors)
     /\ ~call.ret.isValid

\* C12: for criteria that is absent (undefined, null) or not of object
\* type, validateCriteria returns isValid = false with the one error
\* 'Criteria must be an object' and nothing from the rubric and weight
\* checks.
C12_BadContainerShortCircuits ==
  (/\ Called("validateCriteria")
   /\ ~Present(call.args[1]) \/ TypeOf(call.args[1]) # "object")
  => call.ret = [isValid |-> FALSE, errors |-> <<"Criteria must be an object">>]

\* C12 witness: validateCriteria was called with text or with null, and
\* returned the one error.
C12_Witness ==
  /\ Called("validateCriteria")
  /\ call.args[1] \in {Str(<<"strict">>), Null}
  /\ call.ret.errors = <<"Criteria must be an object">>

\* The rubric is present and no object.
RubricViolated(criteria) ==
  /\ Present(Get(criteria, "rubric"))
  /\ TypeOf(Get(criteria, "rubric")) # "object"

\* x coerces to a finite number of [lo, hi].
CoercesInto(x, lo, hi) ==
  LET n == ToNumber(x)
  IN ~IsNaN(n) /\ lo * Unit <= n.v /\ n.v <= hi * Unit

\* C13: for a criteria object validateCriteria reports 'Weight must be a
\* number between 0 and 1' iff weight is present and does not coerce to a
\* number of [0,1]; with weight absent or in [0,1], the endpoints included,
\* and no rubric violation the criteria is valid.
C13_WeightRange ==
  (Called("validateCriteria") /\ call.args[1].t = "object") =>
    LET weight == Get(call.args[1], "weight")
        bad == Present(weight) /\ ~CoercesInto(weight, 0, 1)
    IN /\ ("Weight must be a number between 0 and 1" \in Range(call.ret.errors))
            <=> bad
       /\ (~bad /\ ~RubricViolated(call.args[1])) =>
            call.ret = [isValid |-> TRUE, errors |-> <<>>]

\* C13 witness: criteria with the endpoint weight 1 was found valid.
C13_Witness ==
  /\ Called("validateCriteria")
  /\ call.args[1] = Obj([weight |-> Num(1 * Unit)])
  /\ call.ret.isValid

\* sanitizeInput was called with an object and returned.
Sanitized == Called("sanitizeInput") /\ call.ret # TypeError

\* The object a returned sanitizeInput call gave back.
SanitizedResult == call.ret.heap[call.ret.sanitized]

\* The positions of s that hold no white space.
NonWhite(s) == {i \in 1..Len(s) : s[i] \notin WhiteSpace}

\* s from its first to its last token that is no white space.
Trimmed(s) ==
  IF NonWhite(s) = {} THEN <<>>
  ELSE SubSeq(s, CHOOSE i \in NonWhite(s) : \A j \in NonWhite(s) : i <= j,
                 CHOOSE i \in NonWhite(s) : \A j \in NonWhite(s) : i >= j)

NotAngle(c) == c \notin {"<", ">"}

\* s without its < and > tokens.
WithoutAngles(s) == SelectSeq(s, NotAngle)

\* C14: sanitizeInput returns an object with exactly the keys of its
\* input; every string field is the input string trimmed of leading and
\* trailing white space and then stripped of every < and >, every other
\* field holds the value of the input.
C14_SanitizeTrimsThenStrips ==
  Sanitized =>
    LET data == call.args[1]
    IN /\ SanitizedResult.t = "object"
       /\ DOMAIN SanitizedResult.v = DOMAIN data.v
       /\ \A key \in DOMAIN data.v :
            SanitizedResult.v[key] =
              IF data.v[key].t = "string"
                THEN Str(WithoutAngles(Trimmed(data.v[key].v)))
                ELSE data.v[key]

\* C14 witness: a record named " <b>Bob</b> " with an array of weak areas
\* was sanitized, the name to "bBob/b" and the array as it was.
C14_Witness ==
  /\ Sanitized
  /\ Get(call.args[1], "name")
       = Str(<<" ", "<", "b", ">", "Bob", "<", "/b", ">", " ">>)
  /\ Get(call.args[1], "weakAreas") = Arr(<<Str(<<"<", "b", ">">>)>>)
  /\ Get(SanitizedResult, "name") = Str(<<"b", "Bob", "/b">>)
  /\ Get(SanitizedResult, "weakAreas") = Arr(<<Str(<<"<", "b", ">">>)>>)

\* C15: every string field of the object sanitizeInput returns holds no <
\* and no > and neither starts nor ends with white space.
C15_SanitizedIsCleanAndTrimmed ==
  Sanitized =>
    \A key \in DOMAIN SanitizedResult.v :
      LET x == SanitizedResult.v[key]
      IN x.t = "string" =>
           /\ \A i \in 1..Len(x.v) : x.v[i] \notin {"<", ">"}
           /\ x.v # <<>> =>
                x.v[1] \notin WhiteSpace /\ x.v[Len(x.v)] \notin WhiteSpace

\* C16: sanitizeInput does not mutate its argument: at the return the
\* argument object has the keys and values it had at the call, and the
\* object returned is another object.
C16_SanitizeLeavesArgument ==
  Sanitized =>
    /\ call.ret.heap[1] = call.args[1]
    /\ call.ret.sanitized # 1

\* C16 witness: a record whose name the sanitizer changes was sanitized,
\* and the argument still holds the name as given.
C16_Witness ==
  /\ Sanitized
  /\ Get(call.args[1], "name") = Str(<<"<", " ", "Bob", " ", ">">>)
  /\ Get(SanitizedResult, "name") # Get(call.args[1], "name")
  /\ Get(call.ret.heap[1], "name") = Str(<<"<", " ", "Bob", " ", ">">>)

\* The text the claim binds to {areas}: the weak areas joined with ', '
\* when there is at least one, 'general concepts' when there is none.
ClaimedAreas(weakAreas) ==
  IF IsArray(weakAreas) /\ weakAreas.v # <<>>
    THEN Join(weakAreas.v, <<",", " ">>)
    ELSE <<"general concepts">>

\* The name and the subject of the record sd spell no placeholder and no
\* replacement pattern.
PlainNameAndSubject(sd) ==
  \A x \in {Get(sd, "name"), Get(sd, "subject")} :
    x.t = "string" /\ Range(x.v) \cap {"{", "}", "$"} = {}

\* C17: the text bound to {areas} is the weak areas joined with ', '
\* whenever the weak-area sequence is non-empty, whatever its labels, and
\* 'general concepts' only when it is empty or absent.  Read off the
\* feedback of the level 'good', whose template shows the binding.
C17_AreasJoinedOrFallback ==
  (/\ Answered(200)
   /\ res.body.v.performanceLevel = Str(<<"good">>)
   /\ PlainNameAndSubject(sanitizedStudentData))
  => res.body.v.feedback.v =
       Render(Templates.good,
              [Bindings(sanitizedStudentData) EXCEPT
                 !.areas = ClaimedAreas(Get(sanitizedStudentData, "weakAreas"))])

\* x is left out, or an array or a text of length 0.
EmptyOrAbsent(x) == ~Present(x) \/ (x.t \in {"array", "string"} /\ x.v = <<>>)

\* x is an array that holds at least one entry.
NonEmptyArray(x) == IsArray(x) /\ x.v # <<>>

\* C18: generateRecommendations returns exactly 'Continue building on
\* current strengths' whenever weakAreas is empty or absent, for every
\* value of strengths.
C18_NoWeakAreasContinue ==
  (Called("generateRecommendations") /\ EmptyOrAbsent(call.args[1])) =>
    call.ret = Str(<<"Continue building on current strengths">>)

\* C18 witness: generateRecommendations was called with an empty array and
\* two strengths, and returned the literal.
C18_Witness ==
  /\ Called("generateRecommendations")
  /\ call.args[1] = Arr(<<>>)
  /\ call.args[2] = Arr(<<Str(<<"Algebra">>), Str(<<"Geometry">>)>>)
  /\ call.ret = Str(<<"Continue building on current strengths">>)

\* The first two labels of the array a joined by ' and '.
FirstTwo(a) ==
  a[1].v \o (IF Len(a) >= 2 THEN <<" ", "and", " ">> \o a[2].v ELSE <<>>)

\* C19: for a non-empty weakAreas generateRecommendations returns 'Focus on
\* A while leveraging strengths in S', A being the first two weak areas
\* joined by ' and ' and S the strengths joined by ' and ', or 'identified
\* areas' exactly when strengths is empty or absent.
C19_FocusOnFirstTwo ==
  (/\ Called("generateRecommendations")
   /\ NonEmptyArray(call.args[1])
   /\ ~Present(call.args[2]) \/ IsArray(call.args[2]))
  => call.ret =
       Str(<<"Focus on", " ">> \o FirstTwo(call.args[1].v)
           \o <<" ", "while leveraging strengths in", " ">>
           \o (IF EmptyOrAbsent(call.args[2]) THEN <<"identified areas">>
                ELSE Join(call.args[2].v, <<" ", "and", " ">>)))

\* The first tokens of the lines the claim puts in the recommendations
\* list of the record sd, in their order.
ClaimedLines(sd) ==
  (IF NonEmptyArray(Get(sd, "weakAreas"))
     THEN <<"Target improvement areas:">> ELSE <<>>)
  \o (IF NonEmptyArray(Get(sd, "strengths"))
        THEN <<"Build upon strengths:">> ELSE <<>>)
  \o (IF Present(Get(sd, "learningStyle"))
        THEN <<"Adapt teaching methods for">> ELSE <<>>)

\* C20: the recommendations list of the result has one line for each of
\* the conditions weakAreas non-empty, strengths non-empty, learningStyle
\* present that holds, in the order 'Target improvement areas: ...',
\* 'Build upon strengths: ...', 'Adapt teaching methods for ...'; with
\* none of them the list is empty.
C20_OneLinePerCondition ==
  Answered(200) =>
    LET list == res.body.v.recommendations.v
        lines == ClaimedLines(sanitizedStudentData)
    IN /\ Len(list) = Len(lines)
       /\ \A i \in 1..Len(list) : list[i].v[1] = lines[i]

\* The result of the request answered 200.
Result == res.body.v

C22_NextStepsByLevel ==
  Answered(200) =>
    LET level == Result.performanceLevel
        weakAreas == Get(sanitizedStudentData, "weakAreas")
        steps == Result.nextSteps
    IN /\ level \in {Str(<<"excellent">>), Str(<<"good">>),
                     Str(<<"needsImprovement">>)}
       /\ level = Str(<<"excellent">>) =>
            steps = Arr(<<Str(<<"Explore advanced topics and challenges">>),
                          Str(<<"Consider peer tutoring opportunities">>)>>)
       /\ level = Str(<<"good">>) =>
            steps = Arr(<<Str(<<"Practice additional exercises in identified areas">>),
                          Str(<<"Seek clarification on challenging concepts">>)>>)
       /\ level = Str(<<"needsImprovement">>) =>
            steps = Arr(<<Str(<<"Schedule additional support sessions">>),
                          Str(<<"Review fundamental concepts">>)>>
                        \o (IF NonEmptyArray(weakAreas)
                              THEN <<Str(<<"Focus specifically on:", " ">>
                                         \o FirstTwo(weakAreas.v))>>
                              ELSE <<>>))
       /\ Len(steps.v) \in {2, 3}

\* C22 witness: a request of the level needsImprovement with three weak
\* areas was answered with three next steps, the third naming two areas.
C22_Witness ==
  /\ Answered(200)
  /\ Result.performanceLevel = Str(<<"needsImprovement">>)
  /\ Get(sanitizedStudentData, "weakAreas")
       = Arr(<<Str(<<"Grammar">>), Str(<<"Vocabulary">>), Str(<<"Spelling">>)>>)
  /\ Len(Result.nextSteps.v) = 3
  /\ Result.nextSteps.v[3]
       = Str(<<"Focus specifically on:", " ", "Grammar", " ", "and", " ",
               "Vocabulary">>)

\* C23: the result of generateFeedback carries the name and the subject of
\* the record it was given as studentName and subject, and its
\* recommendations and nextSteps are sequences, possibly empty, never null
\* or left out, also when weakAreas, strengths and learningStyle are all
\* absent.
C23_EchoAndSequences ==
  Answered(200) =>
    /\ {"studentName", "subject", "recommendations", "nextSteps"}
         \subseteq DOMAIN Result
    /\ Result.studentName = Get(sanitizedStudentData, "name")
    /\ Result.subject = Get(sanitizedStudentData, "subject")
    /\ IsArray(Result.recommendations)
    /\ IsArray(Result.nextSteps)

\* C23 witness: a record with weakAreas, strengths and learningStyle left
\* out was answered with its name and an empty recommendations list.
C23_Witness ==
  /\ Answered(200)
  /\ \A f \in {"weakAreas", "strengths", "learningStyle"} :
       Get(sanitizedStudentData, f) = Undefined
  /\ Result.studentName = Str(JohnDoe)
  /\ Result.recommendations = Arr(<<>>)

\* The level of a performance number by the cutoffs 85 and 70.
FixedLevel(performance) ==
  IF performance.v >= 85 * Unit THEN Str(<<"excellent">>)
  ELSE IF performance.v >= 70 * Unit THEN Str(<<"good">>)
  ELSE Str(<<"needsImprovement">>)

\* A direct call of generateFeedback has been kept.
KeptFeedback ==
  /\ earlier # Undefined
  /\ earlier.op = "generateFeedback"
  /\ earlier.ret # TypeError

\* C24: the criteria argument never influences the result: two calls of
\* generateFeedback with the same record, whatever criteria each was given
\* (none, a rubric, a rubric with other cutoffs, a weight), agree on
\* performanceLevel, feedback, recommendations and nextSteps, and the level
\* is the one of the fixed cutoffs 85 and 70.
C24_CriteriaIgnored ==
  (Called("generateFeedback") /\ call.ret # TypeError) =>
    /\ call.ret.v.performanceLevel
         = FixedLevel(Get(call.args[1], "performance"))
    /\ (KeptFeedback /\ earlier.args[1] = call.args[1]) =>
         \A f \in {"performanceLevel", "feedback", "recommendations",
                   "nextSteps"} :
           call.ret.v[f] = earlier.ret.v[f]

\* C24 witness: the record with performance 90 was given to generateFeedback
\* without criteria and, later, with a rubric whose cutoff for excellence
\* is 95, and both results are 'excellent'.
C24_Witness ==
  /\ Called("generateFeedback")
  /\ KeptFeedback
  /\ earlier.args[1] = call.args[1]
  /\ Get(call.args[1], "performance") = Num(90 * Unit)
  /\ earlier.args[2] = Obj(<<>>)
  /\ Get(Get(call.args[2], "rubric"), "excellence") = Num(95 * Unit)
  /\ call.ret.v.performanceLevel = Str(<<"excellent">>)
  /\ earlier.ret.v.performanceLevel = Str(<<"excellent">>)

\* A result of generateFeedback without its timestamp.
SansTimestamp(result) ==
  [k \in DOMAIN result.v \ {"timestamp"} |-> result.v[k]]

\* What the direct call c returned, the timestamp of a feedback result
\* left out.
Returned(c) ==
  IF c.op = "generateFeedback" /\ c.ret # TypeError
    THEN SansTimestamp(c.ret) ELSE c.ret

\* C25: no state is retained between invocations: after any sequence of
\* requests and of generateFeedback, validateStudentData, validateCriteria
\* and sanitizeInput calls the feedbackTemplates table is as constructed,
\* and a call returns what an earlier call with equal arguments returned,
\* the timestamp apart, whatever ran in between.
C25_NoStateRetained ==
  /\ feedbackTemplates = Templates
  /\ (/\ pc = "called" /\ earlier # Undefined
      /\ earlier.op = call.op /\ earlier.args = call.args)
     => Returned(call) = Returned(earlier)
  /\ (/\ Answered(200) /\ KeptFeedback
      /\ earlier.args = <<sanitizedStudentData, sanitizedCriteria>>)
     => SansTimestamp(res.body) = SansTimestamp(earlier.ret)

\* C25 witness: generateFeedback was called twice with equal arguments at
\* different instants, and the two results differ in the timestamp only.
C25_Witness ==
  /\ Called("generateFeedback")
  /\ KeptFeedback
  /\ earlier.args = call.args
  /\ earlier.ret.v.timestamp # call.ret.v.timestamp
  /\ SansTimestamp(earlier.ret) = SansTimestamp(call.ret)

\* C26: the request of the API documentation (performance 85, weakAreas
\* Geometry and Word problems, strengths Algebra and Problem solving,
\* learningStyle visual) is answered as the documentation shows: level
\* 'good', the 'Good progress!' feedback naming 'Geometry, Word problems',
\* the three recommendation lines and the two next steps of 'good'.
C26_DocumentedResponse ==
  (/\ Answered(200)
   /\ body = Obj([studentData |-> DocumentedStudent,
                  criteria |-> DocumentedCriteria]))
  => /\ Result.studentName = Str(JohnDoe)
     /\ Result.subject = Str(<<"Mathematics">>)
     /\ Result.performanceLevel = Str(<<"good">>)
     /\ Result.feedback =
          Str(<<"Good progress!", " ", "John", " ", "Doe", " ",
                "shows solid grasp of", " ", "Mathematics", " ",
                "with room for improvement in", " ",
                "Geometry", ",", " ", "Word", " ", "problems", ".">>)
     /\ Result.recommendations =
          Arr(<<Str(<<"Target improvement areas:", " ",
                      "Geometry", ",", " ", "Word", " ", "problems">>),
                Str(<<"Build upon strengths:", " ",
                      "Algebra", ",", " ", "Problem", " ", "solving">>),
                Str(<<"Adapt teaching methods for", " ", "visual", " ",
                      "learning style">>)>>)
     /\ Result.nextSteps =
          Arr(<<Str(<<"Practice additional exercises in identified areas">>),
                Str(<<"Seek clarification on challenging concepts">>)>>)

\* C27: for every request answered 200 the studentName and the subject of
\* the result are non-empty text: the name and the subject handed to
\* generateFeedback after sanitization are never empty.
C27_NameAndSubjectNonEmpty ==
  Answered(200) =>
    /\ NonEmptyText(Result.studentName)
    /\ NonEmptyText(Result.subject)

\* The texts of the response: the feedback and every line of the
\* recommendations and of the next steps.
ResponseTexts ==
  {Result.feedback.v}
  \cup {Result.recommendations.v[i].v : i \in 1..Len(Result.recommendations.v)}
  \cup {Result.nextSteps.v[i].v : i \in 1..Len(Result.nextSteps.v)}

\* C28: for every request answered 200 none of the texts in feedback,
\* recommendations and nextSteps holds a < or a >, whatever the name,
\* subject, learningStyle, weakAreas entries and strengths entries of the
\* request were.
C28_NoAngleInResponse ==
  Answered(200) =>
    \A text \in ResponseTexts : Range(text) \cap {"<", ">"} = {}

\* C29: sanitizeInput is idempotent: sanitizing the object a call returned
\* gives that object again, field by field.
C29_SanitizeIdempotent ==
  Sanitized => sanitizeInput(SanitizedResult) = SanitizedResult

\* The student record of the request is a record that is not valid.
StudentInvalid ==
  /\ Present(StudentDataOf(body))
  /\ ~validateStudentData(StudentDataOf(body)).isValid

\* The criteria of the request is not valid.
CriteriaInvalid == ~validateCriteria(CriteriaOf(body)).isValid

\* C30: the student record is validated strictly before the criteria: the
\* details of a 400 response hold the student-record errors alone when the
\* record is invalid, the criteria being invalid or not and never
\* validated, and hold the criteria errors only when the record is valid.
C30_StudentBeforeCriteria ==
  Answered(400) =>
    IF StudentInvalid
      THEN /\ res.body.details = validateStudentData(StudentDataOf(body)).errors
           /\ calls = <<"validateStudentData">>
           /\ criteriaValidation = Undefined
      ELSE /\ CriteriaInvalid
           /\ res.body.details = validateCriteria(CriteriaOf(body)).errors
           /\ calls = <<"validateStudentData", "validateCriteria">>
           /\ studentValidation.isValid

\* C30 witness: a request whose record and criteria are both invalid was
\* answered 400 with the errors of the record.
C30_Witness ==
  /\ Answered(400)
  /\ StudentInvalid
  /\ CriteriaInvalid
  /\ res.body.details = <<"name is required",
                          "Performance must be a number between 0 and 100">>

====
